---- MODULE Spec2Model ----
(***************************************************************************)
(* The ZIM update protocol of the knowledge archival system:               *)
(* ZimConnector.update_if_needed and the components it drives              *)
(* (ZimDownloadManager, ZimBackupManager, ZimMetadataManager,              *)
(* ZimVerificationService).                                                *)
(*                                                                         *)
(* File names, URLs and version strings are sequences of character codes   *)
(* (ASCII), so that the regular expressions, the lexicographic sort and    *)
(* the integer parses of the code are computed, not assumed.               *)
(***************************************************************************)
EXTENDS Integers, Sequences, FiniteSets, TLC

(***************************************************************************)
(* Bounds of the model.                                                    *)
(***************************************************************************)
\* number of runs of update_if_needed in one behaviour
MaxCalls == 2
\* largest response body, in chunks of chunk_size bytes
MaxSize == 2
\* the retention cap given to the backup manager (source_config
\* "max_backups"), kept small: a run adds at most one backup file
max_backups == 1

(***************************************************************************)
(* Characters and strings.                                                 *)
(***************************************************************************)
Chr(d) == 48 + d
IsDigit(c) == c >= 48 /\ c <= 57
DigitVal(c) == c - 48

\* "_", "-", ".", "/"
UNDERSCORE == <<95>>
DASH == <<45>>
DOT == <<46>>
SLASH == <<47>>
\* ".zim" and ".downloading"
ZIM == <<46, 122, 105, 109>>
DOWNLOADING == <<46, 100, 111, 119, 110, 108, 111, 97, 100, 105, 110, 103>>

Digits4(n) == <<Chr(n \div 1000), Chr((n \div 100) % 10), Chr((n \div 10) % 10), Chr(n % 10)>>
Digits2(n) == <<Chr((n \div 10) % 10), Chr(n % 10)>>

\* "w_YYYY-MM.zim"
Archive(y, m) == <<119>> \o UNDERSCORE \o Digits4(y) \o DASH \o Digits2(m) \o ZIM
\* "w_2024-02xzim": accepted by the default file_pattern, whose last "." is
\* an unescaped wildcard, but without the "_YYYY-MM." token
NoToken == <<119>> \o UNDERSCORE \o Digits4(2024) \o DASH \o Digits2(2) \o <<120, 122, 105, 109>>

\* the absent value (None); an empty string is falsy in the same way
None == <<>>

\* int() of a string of decimal digits
RECURSIVE StrToInt(_)
StrToInt(s) == IF s = <<>> THEN 0 ELSE 10 * StrToInt(SubSeq(s, 1, Len(s) - 1)) + DigitVal(s[Len(s)])

AllDigits(s, from, to) == \A i \in from..to : IsDigit(s[i])

\* str < str of Python: the first differing character decides, a proper
\* prefix is smaller
StrLess(a, b) ==
    \/ \E i \in 1..Len(a) :
          /\ i <= Len(b)
          /\ a[i] < b[i]
          /\ \A j \in 1..(i - 1) : a[j] = b[j]
    \/ /\ Len(a) < Len(b)
       /\ \A j \in 1..Len(a) : a[j] = b[j]

\* sorted(names)[-1] for a non-empty collection of distinct names
SortedLast(S) == CHOOSE x \in S : \A z \in S : z = x \/ StrLess(z, x)

\* os.path.basename(url), url.split('/')[-1]
Basename(s) ==
    LET slashes == {i \in 1..Len(s) : s[i] = SLASH[1]}
        last == IF slashes = {} THEN 0 ELSE CHOOSE i \in slashes : \A j \in slashes : j <= i
    IN SubSeq(s, last + 1, Len(s))

(***************************************************************************)
(* Version Comparator: ZimDownloadManager.is_newer_version and the regular *)
(* expressions it and the metadata manager apply to file names.            *)
(***************************************************************************)
\* the shape _\d{4}-\d{2}\. at position i of s
TokenAt(s, i) ==
    /\ i >= 1
    /\ i + 8 <= Len(s)
    /\ s[i] = UNDERSCORE[1]
    /\ AllDigits(s, i + 1, i + 4)
    /\ s[i + 5] = DASH[1]
    /\ AllDigits(s, i + 6, i + 7)
    /\ s[i + 8] = DOT[1]

\* re.search(r'_(\d{4})-(\d{2})\.', filename): the leftmost match, 0 for none
SearchToken(s) ==
    LET hits == {i \in 1..Len(s) : TokenAt(s, i)}
    IN IF hits = {} THEN 0 ELSE CHOOSE i \in hits : \A j \in hits : i <= j

\* datetime(year, month, 1) raises ValueError outside these ranges
ValidDate(year, month) == year >= 1 /\ year <= 9999 /\ month >= 1 /\ month <= 12

\* _extract_version_date(filename): <<year, month>>, or None
ExtractVersionDate(filename) ==
    LET i == SearchToken(filename)
        year == StrToInt(SubSeq(filename, i + 1, i + 4))
        month == StrToInt(SubSeq(filename, i + 6, i + 7))
    IN IF i = 0 THEN None
       ELSE IF ~ValidDate(year, month) THEN None
       ELSE <<year, month>>

\* re.match(r'(\d{4})-(\d{2})', latest_version): anchored at the start only
MatchStoredVersion(v) ==
    /\ Len(v) >= 7
    /\ AllDigits(v, 1, 4)
    /\ v[5] = DASH[1]
    /\ AllDigits(v, 6, 7)

\* a comparison that looks at the year and at the month separately
DateGreaterEither(a, b) == a[1] > b[1] \/ a[2] > b[2]

\* a comparison that takes the same month for newer
DateGreaterOrSame(a, b) == a[1] > b[1] \/ (a[1] = b[1] /\ a[2] >= b[2])

\* datetime > datetime, both on day 1
DateGreater(a, b) == a[1] > b[1] \/ (a[1] = b[1] /\ a[2] > b[2])

\* is_newer_version with the stored version examined before the remote name
IsNewerVersionStoredFirst(remote_file, latest_version) ==
    LET remote_date == ExtractVersionDate(remote_file)
        year == StrToInt(SubSeq(latest_version, 1, 4))
        month == StrToInt(SubSeq(latest_version, 6, 7))
    IN IF latest_version = None THEN TRUE
       ELSE IF ~MatchStoredVersion(latest_version) THEN TRUE
       ELSE IF ~ValidDate(year, month) THEN TRUE
       ELSE IF remote_date = None THEN FALSE
       ELSE DateGreater(remote_date, <<year, month>>)

\* is_newer_version(remote_file), latest_version being what
\* metadata_manager.get_latest_version() returned
IsNewerVersion(remote_file, latest_version) ==
    LET remote_date == ExtractVersionDate(remote_file)
        year == StrToInt(SubSeq(latest_version, 1, 4))
        month == StrToInt(SubSeq(latest_version, 6, 7))
    IN IF latest_version = None THEN TRUE
       ELSE IF remote_date = None THEN FALSE
       ELSE IF ~MatchStoredVersion(latest_version) THEN TRUE
       ELSE IF ~ValidDate(year, month) THEN TRUE
       ELSE DateGreater(remote_date, <<year, month>>)

(***************************************************************************)
(* Remote Index Resolver.                                                  *)
(***************************************************************************)
\* the default file_pattern .*_[0-9]{4}-[0-9]{2}.zim ending at position e of
\* s; its last "." is unescaped and matches any character
PatternEndsAt(s, e) ==
    /\ e <= Len(s)
    /\ e >= 12
    /\ s[e - 11] = UNDERSCORE[1]
    /\ AllDigits(s, e - 10, e - 7)
    /\ s[e - 6] = DASH[1]
    /\ AllDigits(s, e - 5, e - 4)
    /\ SubSeq(s, e - 2, e) = SubSeq(ZIM, 2, 4)

\* href="(file_pattern)": the pattern has to cover the whole href value
HrefMatch(name) == PatternEndsAt(name, Len(name))

\* pattern.match(filename) in get_latest_local_file: anchored at the start
\* only, so any name with a matching prefix is accepted
LocalMatch(filename) == \E e \in 1..Len(filename) : PatternEndsAt(filename, e)

\* the source_url, ending with a slash: "h/"
source_url == <<104>> \o SLASH

\* a resolver that takes the first name of the sorted matches
GetLatestRemoteFileFirst(page, fetched) ==
    LET matches == {h \in page : HrefMatch(h)}
        first == CHOOSE x \in matches : \A z \in matches : z = x \/ StrLess(x, z)
    IN IF ~fetched THEN <<None, None>>
       ELSE IF matches = {} THEN <<None, None>>
       ELSE <<first, source_url \o first>>

\* get_latest_remote_file(): <<latest_file, full_url>> or <<None, None>>.
\* page is the set of href values of the listing, fetched says whether the
\* GET succeeded
GetLatestRemoteFile(page, fetched) ==
    LET matches == {h \in page : HrefMatch(h)}
    IN IF ~fetched THEN <<None, None>>
       ELSE IF matches = {} THEN <<None, None>>
       ELSE <<SortedLast(matches), source_url \o SortedLast(matches)>>

(***************************************************************************)
(* State.                                                                  *)
(***************************************************************************)
VARIABLES
    files,        \* the data directory: file name -> content
    backups,      \* the backup directory: a set of backup files
    store,        \* downloads_metadata.json, the entry of this source
    registered,   \* whether the metrics of this source are registered
    metrics,      \* the counters of the running process
    calls,        \* runs started so far; also the wall clock of a run
    pc,           \* position of the run inside update_if_needed
    force,        \* the force argument of the run
    latest_file,  \* check_for_update's latest_file
    download_url, \* self.download_url
    downloaded,   \* download_file's downloaded, in chunks
    total,        \* size of the response body, in chunks
    pending,      \* the metadata save_metadata is about to dump
    dl_ok,        \* what download_file returned
    result,       \* what update_if_needed returned
    trace,        \* history: the steps of the run and how each ended
    faults,       \* history: the failures the environment raised in the run
    dl,           \* history: the download attempt in progress or last made
    pre,          \* history: files, backups and store when the run started
    prev          \* history: the unforced run that returned just before this one

vars == <<files, backups, store, registered, metrics, calls, pc, force,
          latest_file, download_url, downloaded, total, pending, dl_ok, result,
          trace, faults, dl, pre, prev>>

\* the names a listing can offer
Catalog == {Archive(2023, 12), Archive(2024, 1), NoToken}

\* a download written straight to its final path
TempPathDirect(name) == name

\* temp_file_path = f"{local_file_path}.downloading"
TempPath(name) == name \o DOWNLOADING

\* A directory maps the names of its files to their contents (the directory
\* prefix of a path is the same for all files and left out). A content: gen
\* is the run that wrote it (its modification time), len the chunks it
\* holds, of the chunks of the body it was written from
NoFile == [gen |-> 0, len |-> 0, of |-> 0]
EmptyDir == [p \in {} |-> NoFile]
\* os.path.exists(path)
Exists(dir, path) == path \in DOMAIN dir
\* the content at path, NoFile when there is none
At(dir, path) == IF path \in DOMAIN dir THEN dir[path] ELSE NoFile
\* open(path, 'wb') and the writes to it
Put(dir, path, c) == [q \in DOMAIN dir \cup {path} |-> IF q = path THEN c ELSE dir[q]]

(***************************************************************************)
(* Metadata Store: ZimMetadataManager.                                     *)
(***************************************************************************)
NoStore == [kind |-> "missing", downloads |-> <<>>, latest_version |-> None]
\* open(metadata_file, 'w') has truncated the file, json.dump has not run
TornStore == [kind |-> "torn", downloads |-> <<>>, latest_version |-> None]

\* load_metadata() and the search for this source's entry: a missing or
\* unreadable file loads as [], and then the entry is created empty
LoadEntry(st) ==
    IF st.kind = "array" THEN st
    ELSE [kind |-> "array", downloads |-> <<>>, latest_version |-> None]

\* get_latest_version()
GetLatestVersion(st) == IF st.kind = "array" THEN st.latest_version ELSE None

\* a version pattern that captures the year only
VersionOfYear(filename) ==
    LET i == SearchToken(filename)
    IN IF i = 0 THEN None ELSE SubSeq(filename, i + 1, i + 4)

\* the version update_download_metadata takes from the file name:
\* re.search(r'_(\d{4}-\d{2})\.', filename).group(1), None without a match
VersionOf(filename) ==
    LET i == SearchToken(filename)
    IN IF i = 0 THEN None ELSE SubSeq(filename, i + 1, i + 7)

\* update_download_metadata without the assignment to latest_version
WithDownloadStale(st, filename, file_size) ==
    LET entry == LoadEntry(st)
        record == [filename |-> filename, version |-> VersionOf(filename), size_bytes |-> file_size]
    IN [kind |-> "array",
        downloads |-> Append(entry.downloads, record),
        latest_version |-> entry.latest_version]

\* update_download_metadata up to the save: the entry with the record appended
WithDownload(st, filename, file_size) ==
    LET entry == LoadEntry(st)
        record == [filename |-> filename, version |-> VersionOf(filename), size_bytes |-> file_size]
    IN [kind |-> "array",
        downloads |-> Append(entry.downloads, record),
        latest_version |-> VersionOf(filename)]

(***************************************************************************)
(* Local files, check_for_update, verification.                            *)
(***************************************************************************)
\* get_latest_local_file(): the last of the sorted matching names of
\* os.listdir(data_dir), None when nothing matches
GetLatestLocalFile(dir) ==
    LET matching == {p \in DOMAIN dir : LocalMatch(p)}
    IN IF matching = {} THEN None ELSE SortedLast(matching)

\* check_for_update that compares versions even when force is set
CheckForUpdateUnforced(frc, found, dir, st) ==
    IF found[1] = None \/ found[2] = None THEN FALSE
    ELSE IF GetLatestLocalFile(dir) = None THEN TRUE
    ELSE IsNewerVersion(found[1], GetLatestVersion(st))

\* check_for_update that never asks the comparator
CheckForUpdateAlways(frc, found, dir, st) ==
    IF found[1] = None \/ found[2] = None THEN FALSE
    ELSE TRUE

\* check_for_update(force) after the metric: found is what
\* get_latest_remote_file() returned
CheckForUpdate(frc, found, dir, st) ==
    IF found[1] = None \/ found[2] = None THEN FALSE
    ELSE IF frc THEN TRUE
    ELSE IF GetLatestLocalFile(dir) = None THEN TRUE
    ELSE IsNewerVersion(found[1], GetLatestVersion(st))

\* a verification that turns the warning about the extension into a failure
VerifyDownloadExtension(dir, path) ==
    /\ Exists(dir, path)
    /\ dir[path].len # 0
    /\ Len(path) >= 4
    /\ SubSeq(path, Len(path) - 3, Len(path)) = ZIM

\* verify_download(file_path)
VerifyDownload(dir, path) == Exists(dir, path) /\ dir[path].len # 0

\* counter.inc() behind "if metric:"
Inc(m, name) == IF registered THEN [m EXCEPT ![name] = @ + 1] ELSE m

ZeroMetrics ==
    [check_count |-> 0, download_count |-> 0, download_failures |-> 0,
     backup_count |-> 0, backup_failures |-> 0]

(***************************************************************************)
(* Backup Manager: ZimBackupManager.                                       *)
(***************************************************************************)
\* a cleanup that keeps the files with the greatest names
CleanupByName(B) ==
    IF Cardinality(B) <= max_backups THEN {B}
    ELSE {K \in SUBSET B :
            /\ Cardinality(K) = max_backups
            /\ \A k \in K : \A r \in B \ K : ~StrLess(k.src, r.src)}

\* a cleanup that leaves one file more than max_backups
CleanupOneMore(B) ==
    IF Cardinality(B) <= max_backups + 1 THEN {B}
    ELSE {K \in SUBSET B :
            /\ Cardinality(K) = max_backups + 1
            /\ \A k \in K : \A r \in B \ K : k.mtime >= r.mtime}

\* cleanup_old_backups(): what may be left of the backup files B. The sort
\* is by modification time, newest first; files of equal time keep the
\* order os.listdir gave them, which is any order
CleanupOldBackups(B) ==
    IF Cardinality(B) <= max_backups THEN {B}
    ELSE {K \in SUBSET B :
            /\ Cardinality(K) = max_backups
            /\ \A k \in K : \A r \in B \ K : k.mtime >= r.mtime}

\* the file shutil.copy2 leaves in backup_dir: named after the original and
\* the time of the run, with the content and the modification time of the
\* original
BackupOf(dir, path, now) ==
    [src |-> path, ts |-> now, content |-> dir[path], mtime |-> dir[path].gen]

(***************************************************************************)
(* Update Orchestrator: ZimConnector.update_if_needed.                     *)
(***************************************************************************)
\* where update_if_needed goes after check_for_update returned need
AfterCheck(need) == IF need THEN "backup" ELSE "done"
\* an orchestrator that reports "no update needed" as a failure
CheckResultNeed(need) == need
\* what update_if_needed returns when it ends after the check
CheckResult(need) == TRUE
\* an orchestrator that does not look at what the backup returned
AfterBackupIgnored(ok) == "dl_request"
\* where it goes after backup_current_version returned ok
AfterBackup(ok) == IF ok THEN "dl_request" ELSE "done"

\* an orchestrator that does not look at what download_file returned
AfterDownloadIgnored(ok) == "verify"
\* where it goes after download_file returned ok
AfterDownload(ok) == IF ok THEN "verify" ELSE "done"

Step(name, res) == [step |-> name, res |-> res]
SetLast(tr, res) == [tr EXCEPT ![Len(tr)].res = res]

NoDl == [final |-> None, pre |-> NoFile, gen |-> 0, total |-> 0, backups |-> {}]
NoPrev == [valid |-> FALSE, latest_file |-> None, steps |-> {}, settled |-> FALSE]

\* a fresh installation: empty directories, no metadata file, no run yet.
\* reg says whether the MetricsManager holds metrics named after the source
Setup(reg) ==
    /\ files = EmptyDir
    /\ backups = {}
    /\ store = NoStore
    /\ registered = reg
    /\ metrics = ZeroMetrics
    /\ calls = 0
    /\ pc = "idle"
    /\ force = FALSE
    /\ latest_file = None
    /\ download_url = None
    /\ downloaded = 0
    /\ total = 0
    /\ pending = NoStore
    /\ dl_ok = FALSE
    /\ result = FALSE
    /\ trace = <<>>
    /\ faults = {}
    /\ dl = NoDl
    /\ pre = [files |-> files, backups |-> backups, store |-> store]
    /\ prev = NoPrev

\* sources named other than the metrics _initialize_standard_metrics registers
\* run without counters
Init == \E reg \in BOOLEAN : Setup(reg)

\* the process is gone: everything it held in memory with it
Forget ==
    /\ pc' = "idle"
    /\ force' = FALSE
    /\ latest_file' = None
    /\ download_url' = None
    /\ downloaded' = 0
    /\ total' = 0
    /\ pending' = NoStore
    /\ dl_ok' = FALSE
    /\ result' = FALSE
    /\ metrics' = ZeroMetrics
    /\ trace' = <<>>
    /\ faults' = {}
    /\ pre' = [files |-> files, backups |-> backups, store |-> store]

\* the CLI starts a run: update_if_needed(force) on a new connector
Start(frc) ==
    /\ pc = "idle"
    /\ calls < MaxCalls
    /\ calls' = calls + 1
    /\ force' = frc
    /\ pc' = "check"
    /\ pre' = [files |-> files, backups |-> backups, store |-> store]
    /\ UNCHANGED <<files, backups, store, registered, metrics, latest_file, dl,
                   download_url, downloaded, total, pending, dl_ok, result, trace,
                   faults, prev>>

\* check_for_update(force), and update_if_needed's return when it says no.
\* page is the listing the remote index serves at that moment
Check ==
    /\ pc = "check"
    /\ \E page \in SUBSET Catalog, fetched \in BOOLEAN :
          LET found == GetLatestRemoteFile(page, fetched)
              need == CheckForUpdate(force, found, files, store)
          IN /\ latest_file' = found[1]
             /\ download_url' = found[2]
             /\ trace' = <<Step("check", IF need THEN "ok" ELSE "no")>>
             /\ pc' = AfterCheck(need)
             /\ result' = IF AfterCheck(need) = "done" THEN CheckResult(need) ELSE result
             /\ faults' = IF fetched THEN faults ELSE faults \cup {"fetch"}
    /\ metrics' = Inc(metrics, "check_count")
    /\ UNCHANGED <<files, backups, store, registered, calls, force,
                   downloaded, total, pending, dl_ok, dl, pre, prev>>

\* what shutil.copy2 can leave at backup_path: the whole file, or a file a
\* byte short of it
CopiesOf(whole) ==
    IF whole.content.len > 0
    THEN {whole, [whole EXCEPT !.content.len = @ - 1]}
    ELSE {whole}

\* a verification that passes whatever the copy holds
BackupVerifiedAlways(copy, original) == TRUE
\* the verification of the copy: the size of the backup is the size of the
\* original
BackupVerified(copy, original) == copy.content.len = original.len

\* backup_current_version(), cleanup_old_backups() included
Backup ==
    /\ pc = "backup"
    /\ LET latest_local_file == GetLatestLocalFile(files)
           whole == BackupOf(files, latest_local_file, calls)
       IN \/ /\ latest_local_file = None
             /\ trace' = Append(trace, Step("backup", "ok"))
             /\ pc' = AfterBackup(TRUE)
             /\ UNCHANGED <<backups, metrics, result, faults>>
          \/ \* shutil.copy2 returns, with the whole file or with a byte less
             /\ latest_local_file # None
             /\ \E copy \in CopiesOf(whole) :
                   /\ faults' = IF copy = whole THEN faults ELSE faults \cup {"size"}
                   /\ IF BackupVerified(copy, files[latest_local_file])
                      THEN /\ \E left \in CleanupOldBackups(backups \cup {copy}) :
                                 backups' = left
                           /\ metrics' = Inc(metrics, "backup_count")
                           /\ trace' = Append(trace, Step("backup", "ok"))
                           /\ pc' = AfterBackup(TRUE)
                           /\ UNCHANGED result
                      ELSE /\ backups' = backups \cup {copy}
                           /\ trace' = Append(trace, Step("backup", "fail"))
                           /\ pc' = AfterBackup(FALSE)
                           /\ result' = FALSE
                           /\ UNCHANGED metrics
          \/ \* shutil.copy2 raises
             /\ latest_local_file # None
             /\ metrics' = Inc(metrics, "backup_failures")
             /\ trace' = Append(trace, Step("backup", "fail"))
             /\ pc' = AfterBackup(FALSE)
             /\ result' = FALSE
             /\ faults' = faults \cup {"copy"}
             /\ UNCHANGED backups
    /\ UNCHANGED <<files, store, registered, calls, force, latest_file,
                   download_url, downloaded, total, pending, dl_ok, dl, pre, prev>>

(***************************************************************************)
(* Download Manager: ZimDownloadManager.download_file.                     *)
(***************************************************************************)
\* target_filename = os.path.basename(url)
Target == Basename(download_url)

\* os.remove(path)
Remove(dir, path) == [q \in DOMAIN dir \ {path} |-> dir[q]]

\* os.rename(src, dst)
Rename(dir, src, dst) == Remove(Put(dir, dst, dir[src]), src)

\* an except branch that leaves the temp file where it is
LeaveFile(dir, path) == dir

\* if os.path.exists(path): os.remove(path)
RemoveIfExists(dir, path) == IF Exists(dir, path) THEN Remove(dir, path) ELSE dir

\* the except branch of download_file after the failure what: the temp
\* file is removed if it exists, the failure metric incremented, False
\* returned
DownloadHandler(what) ==
    /\ files' = RemoveIfExists(files, TempPath(Target))
    /\ metrics' = Inc(metrics, "download_failures")
    /\ dl_ok' = FALSE
    /\ faults' = faults \cup {what}
    /\ pc' = "dl_ret"

\* download_file(url) up to the first chunk: requests.get and
\* open(temp_file_path, 'wb')
DlRequest ==
    /\ pc = "dl_request"
    /\ \E n \in {0, MaxSize} :
          /\ dl' = [final |-> Target, pre |-> At(files, Target), gen |-> calls, total |-> n,
                    backups |-> backups]
          /\ \/ /\ files' = Put(files, TempPath(Target), [gen |-> calls, len |-> 0, of |-> n])
                /\ total' = n
                /\ downloaded' = 0
                /\ trace' = Append(trace, Step("download", "run"))
                /\ pc' = "dl_write"
                /\ UNCHANGED <<metrics, dl_ok, faults>>
             \/ \* the request or the open raises
                /\ n = 0
                /\ DownloadHandler("request")
                /\ trace' = Append(trace, Step("download", "fail"))
                /\ UNCHANGED <<total, downloaded>>
    /\ UNCHANGED <<backups, store, registered, calls, force, latest_file,
                   download_url, pending, result, pre, prev>>

\* one turn of the loop over response.iter_content
DlWrite ==
    /\ pc = "dl_write"
    /\ downloaded < total
    /\ \/ /\ files' = [files EXCEPT ![TempPath(Target)].len = @ + 1]
          /\ downloaded' = downloaded + 1
          /\ UNCHANGED <<metrics, dl_ok, trace, faults, pc>>
       \/ \* the stream or the write raises
          /\ DownloadHandler("write")
          /\ trace' = SetLast(trace, "fail")
          /\ UNCHANGED downloaded
    /\ UNCHANGED <<backups, store, registered, calls, force, latest_file,
                   download_url, total, pending, result, dl, pre, prev>>

\* the body is exhausted: the rename and the metrics after it
DlRename ==
    /\ pc = "dl_write"
    /\ downloaded = total
    /\ \/ /\ files' = Rename(files, TempPath(Target), Target)
          /\ metrics' = Inc(metrics, "download_count")
          /\ pc' = "dl_meta"
          /\ UNCHANGED <<dl_ok, trace, faults>>
       \/ \* os.rename raises
          /\ DownloadHandler("rename")
          /\ trace' = SetLast(trace, "fail")
    /\ UNCHANGED <<backups, store, registered, calls, force, latest_file,
                   download_url, downloaded, total, pending, result, dl, pre, prev>>

\* update_download_metadata(target_filename, file_size) up to the open of
\* save_metadata; download_file does not look at what it returns
DlMeta ==
    /\ pc = "dl_meta"
    /\ \/ /\ VersionOf(Target) = None
          /\ dl_ok' = TRUE
          /\ trace' = SetLast(trace, "ok")
          /\ pc' = "dl_ret"
          /\ UNCHANGED <<store, pending, faults, files, metrics>>
       \/ /\ VersionOf(Target) # None
          /\ pending' = WithDownload(store, Target, At(files, Target).len)
          /\ store' = TornStore
          /\ pc' = "dl_save"
          /\ UNCHANGED <<dl_ok, trace, faults, files, metrics>>
       \/ \* open(metadata_file, 'w') raises: save_metadata returns False
          /\ VersionOf(Target) # None
          /\ dl_ok' = TRUE
          /\ trace' = SetLast(trace, "ok")
          /\ pc' = "dl_ret"
          /\ faults' = faults \cup {"save"}
          /\ UNCHANGED <<store, pending, files, metrics>>
       \/ \* an exception between the rename and the return (a KeyError of
          \* update_download_metadata on an entry without "downloads", say):
          \* the except branch of download_file
          /\ DownloadHandler("post")
          /\ trace' = SetLast(trace, "fail")
          /\ UNCHANGED <<store, pending>>
    /\ UNCHANGED <<backups, registered, calls, force,
                   latest_file, download_url, downloaded, total, result, dl, pre, prev>>

\* json.dump writes the file; download_file returns True
DlSave ==
    /\ pc = "dl_save"
    /\ store' = pending
    /\ pending' = NoStore
    /\ dl_ok' = TRUE
    /\ trace' = SetLast(trace, "ok")
    /\ pc' = "dl_ret"
    /\ UNCHANGED <<files, backups, registered, metrics, calls, force, latest_file,
                   download_url, downloaded, total, result, faults, dl, pre, prev>>

\* an update_if_needed without its try: the exception goes to the caller
Uncaught(e) == "raised"
\* "except Exception as e" of update_if_needed: the error is logged and
\* False returned
Caught(e) == "done"

\* a chunk or the rename has failed and, in the except branch of
\* download_file, os.remove(temp_file_path) raises as well: the exception
\* leaves download_file and reaches update_if_needed
Escape ==
    /\ pc = "dl_write"
    /\ Exists(files, TempPath(Target))
    /\ pc' = Caught("remove")
    /\ result' = FALSE
    /\ trace' = SetLast(trace, "raise")
    /\ faults' = faults \cup {"remove"}
    /\ UNCHANGED <<files, backups, store, registered, metrics, calls, force,
                   latest_file, download_url, downloaded, total, pending, dl_ok,
                   dl, pre, prev>>

\* update_if_needed after download_file returned False
DownloadFailed ==
    /\ pc = "dl_ret"
    /\ AfterDownload(dl_ok) = "done"
    /\ metrics' = Inc(metrics, "download_failures")
    /\ result' = FALSE
    /\ pc' = "done"
    /\ UNCHANGED <<files, backups, store, registered, calls, force,
                   latest_file, download_url, downloaded, total, pending, dl_ok,
                   trace, faults, dl, pre, prev>>

\* an orchestrator that takes a file that failed verification away
AfterVerifyRollback(dir, path, ok) == IF ok THEN dir ELSE RemoveIfExists(dir, path)

\* what update_if_needed does to the data directory once verify_download has
\* returned ok: it logs and returns, the file stays as it is
AfterVerify(dir, path, ok) == dir

\* update_if_needed after download_file returned True: verify_download
Verify ==
    /\ pc = "dl_ret"
    /\ AfterDownload(dl_ok) = "verify"
    /\ LET ok == VerifyDownload(files, Basename(download_url))
       IN /\ trace' = Append(trace, Step("verify", IF ok THEN "ok" ELSE "fail"))
          /\ result' = ok
          /\ files' = AfterVerify(files, Basename(download_url), ok)
    /\ pc' = "done"
    /\ UNCHANGED <<backups, store, registered, metrics, calls, force,
                   latest_file, download_url, downloaded, total, pending, dl_ok,
                   faults, dl, pre, prev>>

\* whether the run appended a DownloadRecord to the store
Recorded ==
    /\ store.kind = "array"
    /\ Len(store.downloads) = Len(LoadEntry(pre.store).downloads) + 1

\* update_if_needed has returned and the process exits
Return ==
    /\ pc = "done"
    /\ prev' = IF force THEN NoPrev
                ELSE [valid |-> TRUE, latest_file |-> latest_file,
                      steps |-> {trace[i].step : i \in 1..Len(trace)},
                      settled |-> (Recorded \/ trace[Len(trace)] = Step("check", "no"))]
    /\ dl' = NoDl
    /\ Forget
    /\ UNCHANGED <<files, backups, store, registered, calls>>

\* the process is killed in the middle of a run
Crash ==
    /\ pc \in {"check", "backup", "dl_request", "dl_write", "dl_meta", "dl_save", "dl_ret"}
    /\ prev' = NoPrev
    /\ Forget
    /\ UNCHANGED <<files, backups, store, registered, calls, dl>>

Next ==
    \/ \E frc \in BOOLEAN : Start(frc)
    \/ Check
    \/ Backup
    \/ DlRequest
    \/ DlWrite
    \/ DlRename
    \/ DlMeta
    \/ DlSave
    \/ Escape
    \/ DownloadFailed
    \/ Verify
    \/ Return
    \/ Crash

Spec == Init /\ [][Next]_vars

(***************************************************************************)
(* Backup Manager on its own: backup_current_version() called on a data    *)
(* directory and a backup directory that earlier runs have left behind.    *)
(***************************************************************************)
\* a file of the data directory written by run g
Held(g, n) == [gen |-> g, len |-> n, of |-> MaxSize]

\* the data directories the backup is taken from: empty, one archive, two
\* archives, an archive of no bytes, a .downloading file alone and next to an
\* archive
BackupDirs ==
    {EmptyDir,
     Put(EmptyDir, Archive(2023, 12), Held(1, MaxSize)),
     Put(Put(EmptyDir, Archive(2023, 12), Held(1, MaxSize)), Archive(2024, 1), Held(2, MaxSize)),
     Put(EmptyDir, Archive(2023, 12), Held(1, 0)),
     Put(EmptyDir, TempPath(Archive(2024, 1)), Held(2, 1)),
     Put(Put(EmptyDir, Archive(2023, 12), Held(1, MaxSize)), TempPath(Archive(2024, 1)), Held(2, 1))}

\* a file of backup_dir that cleanup_old_backups counts, named after s and
\* last modified at m
Kept(s, m) == [src |-> s, ts |-> 0, content |-> Held(m, MaxSize), mtime |-> m]

\* "v_2023-12.zim": an archive of another source, whose backup_path is the
\* same directory
OtherArchive == [Archive(2023, 12) EXCEPT ![1] = 118]

\* the backup directories: any files named after the catalog or after the
\* archive of the other source, of any age
KeptSets ==
    {{Kept(s, age[s]) : s \in DOMAIN age} :
        age \in UNION {[N -> 0..MaxCalls] : N \in SUBSET (Catalog \cup {OtherArchive})}}

InitBackup ==
    /\ files \in BackupDirs
    /\ backups \in KeptSets
    /\ store = NoStore
    /\ registered \in BOOLEAN
    /\ metrics = ZeroMetrics
    /\ calls = 1
    /\ pc = "backup"
    /\ force = FALSE
    /\ latest_file = Archive(2024, 1)
    /\ download_url = source_url \o Archive(2024, 1)
    /\ downloaded = 0
    /\ total = 0
    /\ pending = NoStore
    /\ dl_ok = FALSE
    /\ result = FALSE
    /\ trace = <<Step("check", "ok")>>
    /\ faults = {}
    /\ dl = NoDl
    /\ pre = [files |-> files, backups |-> backups, store |-> store]
    /\ prev = NoPrev

NextBackup == Backup

SpecBackup == InitBackup /\ [][NextBackup]_vars

(***************************************************************************)
(* Remote Resolver on its own: get_latest_remote_file() on a listing.      *)
(***************************************************************************)
\* "x_2023-11.zim": the greatest name of the listing, and not the newest date
LateName == [Archive(2023, 11) EXCEPT ![1] = 120]
\* "w-2024-03.zim": a link the file_pattern does not match
OtherLink == [Archive(2024, 3) EXCEPT ![2] = DASH[1]]
\* the href values a listing is made of
Listed == Catalog \cup {LateName, OtherLink}

InitRemote ==
    /\ files = EmptyDir
    /\ backups = {}
    /\ store = NoStore
    /\ registered = TRUE
    /\ metrics = ZeroMetrics
    /\ calls = 0
    /\ pc = "resolve"
    /\ force = FALSE
    /\ latest_file = None
    /\ download_url = None
    /\ downloaded = 0
    /\ total = 0
    /\ \E page \in SUBSET Listed, fetched \in BOOLEAN :
          pending = [page |-> page, fetched |-> fetched]
    /\ dl_ok = FALSE
    /\ result = FALSE
    /\ trace = <<>>
    /\ faults = {}
    /\ dl = NoDl
    /\ pre = [files |-> files, backups |-> backups, store |-> store]
    /\ prev = NoPrev

\* latest_file, download_url = get_latest_remote_file(); pending is the
\* answer of the server to the GET of source_url
Resolve ==
    /\ pc = "resolve"
    /\ latest_file' = GetLatestRemoteFile(pending.page, pending.fetched)[1]
    /\ download_url' = GetLatestRemoteFile(pending.page, pending.fetched)[2]
    /\ pc' = "resolved"
    /\ UNCHANGED <<files, backups, store, registered, metrics, calls, force,
                   downloaded, total, pending, dl_ok, result, trace, faults,
                   dl, pre, prev>>

NextRemote == Resolve

SpecRemote == InitRemote /\ [][NextRemote]_vars

(***************************************************************************)
(* Verification Service on its own: verify_download(file_path).            *)
(***************************************************************************)
\* the names verify_download is asked about: an archive, a name without the
\* .zim extension, a .downloading file
VerifyNames == {Archive(2024, 1), NoToken, TempPath(Archive(2024, 1))}

\* the data directories: each name absent, or a file of 0 to MaxSize bytes
VerifyDirs ==
    {[p \in DOMAIN size |-> Held(1, size[p])] :
        size \in UNION {[N -> 0..MaxSize] : N \in SUBSET VerifyNames}}

InitVerify ==
    /\ files \in VerifyDirs
    /\ backups = {}
    /\ store = NoStore
    /\ registered = TRUE
    /\ metrics = ZeroMetrics
    /\ calls = 1
    /\ pc = "verify"
    /\ force = FALSE
    /\ latest_file \in VerifyNames
    /\ download_url = source_url \o latest_file
    /\ downloaded = 0
    /\ total = 0
    /\ pending = NoStore
    /\ dl_ok = TRUE
    /\ result = FALSE
    /\ trace = <<>>
    /\ faults = {}
    /\ dl = NoDl
    /\ pre = [files |-> files, backups |-> backups, store |-> store]
    /\ prev = NoPrev

\* verification_service.verify_download(file_path)
VerifyFile ==
    /\ pc = "verify"
    /\ result' = VerifyDownload(files, Basename(download_url))
    /\ pc' = "verified"
    /\ UNCHANGED <<files, backups, store, registered, metrics, calls, force,
                   latest_file, download_url, downloaded, total, pending, dl_ok,
                   trace, faults, dl, pre, prev>>

NextVerify == VerifyFile

SpecVerify == InitVerify /\ [][NextVerify]_vars

(***************************************************************************)
(* Two installations side by side, one whose MetricsManager holds the      *)
(* metrics of the source and one where every lookup returns None.  Both    *)
(* receive the same calls in the same environment.  update_if_needed is    *)
(* written here as a function of the installation (data directory, backup  *)
(* directory, metadata file), of what the environment does during the      *)
(* call, and of reg: whether the metrics are registered.                   *)
(***************************************************************************)
\* a metric called without the "if metric:" in front: None.inc() raises
CountedUnguarded(reg, m, name) ==
    [m |-> IF reg THEN [m EXCEPT ![name] = @ + 1] ELSE m, raised |-> ~reg]
\* "if metric: metric.inc()": the counters afterwards, and whether the
\* statement raised
Counted(reg, m, name) ==
    [m |-> IF reg THEN [m EXCEPT ![name] = @ + 1] ELSE m, raised |-> FALSE]

\* what the environment does during one call: the listing served, the size
\* of the body, and the one thing that goes wrong, if any (a failed copy ends
\* the call before the download, so one failure a call is all there can be)
Environments ==
    [page : SUBSET Catalog, body : {0, MaxSize},
     fault : {"none", "fetch", "copy", "size", "request", "write", "rename",
              "remove", "post", "save"}]

\* backup_current_version(): <<returned, backup_dir, counters>>
BackupCurrentVersion(w, env, reg, m, now) ==
    LET latest_local_file == GetLatestLocalFile(w.files)
        whole == BackupOf(w.files, latest_local_file, now)
        copy == IF env.fault = "size" /\ whole.content.len > 0
                THEN [whole EXCEPT !.content.len = @ - 1] ELSE whole
        count == Counted(reg, m, "backup_count")
    IN IF latest_local_file = None THEN <<TRUE, w.backups, m>>
       ELSE IF env.fault = "copy"
       THEN <<FALSE, w.backups, Counted(reg, m, "backup_failures").m>>
       ELSE IF BackupVerified(copy, w.files[latest_local_file]) /\ count.raised
       THEN <<FALSE, w.backups \cup {copy}, Counted(reg, count.m, "backup_failures").m>>
       ELSE IF BackupVerified(copy, w.files[latest_local_file])
       THEN <<TRUE, CHOOSE left \in CleanupOldBackups(w.backups \cup {copy}) : TRUE, count.m>>
       ELSE <<FALSE, w.backups \cup {copy}, m>>

\* download_file(url): <<"True", "False" or "raised", data_dir, metadata
\* file, counters>>
DownloadFile(dir, st, url, env, reg, m, now) ==
    LET target == Basename(url)
        temp == TempPath(target)
        opened == Put(dir, temp, [gen |-> now, len |-> 0, of |-> env.body])
        renamed == Rename(Put(dir, temp, [gen |-> now, len |-> env.body, of |-> env.body]),
                          temp, target)
        count == Counted(reg, m, "download_count")
        failed == Counted(reg, m, "download_failures").m
    IN IF env.fault = "request" THEN <<"False", RemoveIfExists(dir, temp), st, failed>>
       ELSE IF env.fault \in {"write", "rename"} THEN <<"False", RemoveIfExists(opened, temp), st, failed>>
       ELSE IF env.fault = "remove" THEN <<"raised", opened, st, m>>
       ELSE IF env.fault = "post" \/ count.raised
       THEN <<"False", RemoveIfExists(renamed, temp), st, Counted(reg, count.m, "download_failures").m>>
       ELSE IF VersionOf(target) = None \/ env.fault = "save" THEN <<"True", renamed, st, count.m>>
       ELSE <<"True", renamed, WithDownload(st, target, env.body), count.m>>

\* update_if_needed(force) on the installation w: the installation, the
\* value returned and the counters afterwards
UpdateIfNeeded(w, frc, env, reg, m, now) ==
    LET checked == Counted(reg, m, "check_count")
        found == GetLatestRemoteFile(env.page, env.fault # "fetch")
        need == CheckForUpdate(frc, found, w.files, w.store)
        backup == BackupCurrentVersion(w, env, reg, checked.m, now)
        download == DownloadFile(w.files, w.store, found[2], env, reg, backup[3], now)
        out(dir, b, st, r, c) == [files |-> dir, backups |-> b, store |-> st, result |-> r, metrics |-> c]
    IN IF checked.raised THEN out(w.files, w.backups, w.store, FALSE, checked.m)
       ELSE IF AfterCheck(need) = "done" THEN out(w.files, w.backups, w.store, CheckResult(need), checked.m)
       ELSE IF AfterBackup(backup[1]) = "done" THEN out(w.files, backup[2], w.store, FALSE, backup[3])
       ELSE IF download[1] = "raised" THEN out(download[2], backup[2], download[3], FALSE, download[4])
       ELSE IF AfterDownload(download[1] = "True") = "done"
       THEN out(download[2], backup[2], download[3], FALSE,
                Counted(reg, download[4], "download_failures").m)
       ELSE out(AfterVerify(download[2], Basename(found[2]), VerifyDownload(download[2], Basename(found[2]))),
                backup[2], download[3], VerifyDownload(download[2], Basename(found[2])), download[4])

\* the second installation: its directories and metadata file are in pre,
\* what its last call returned and its counters in dl
InitTwin ==
    /\ files = EmptyDir
    /\ backups = {}
    /\ store = NoStore
    /\ registered = TRUE
    /\ metrics = ZeroMetrics
    /\ calls = 0
    /\ pc = "twin"
    /\ force = FALSE
    /\ latest_file = None
    /\ download_url = None
    /\ downloaded = 0
    /\ total = 0
    /\ pending = NoStore
    /\ dl_ok = FALSE
    /\ result = FALSE
    /\ trace = <<>>
    /\ faults = {}
    /\ dl = [result |-> FALSE, metrics |-> ZeroMetrics]
    /\ pre = [files |-> files, backups |-> backups, store |-> store]
    /\ prev = NoPrev

\* the same call, in the same environment, on both installations
UpdateBoth ==
    /\ pc = "twin"
    /\ calls < MaxCalls
    /\ \E frc \in BOOLEAN, env \in Environments :
          \E here \in {UpdateIfNeeded([files |-> files, backups |-> backups, store |-> store],
                                      frc, env, TRUE, metrics, calls + 1)},
             there \in {UpdateIfNeeded(pre, frc, env, FALSE, dl.metrics, calls + 1)} :
             /\ files' = here.files
             /\ backups' = here.backups
             /\ store' = here.store
             /\ result' = here.result
             /\ metrics' = here.metrics
             /\ pre' = [files |-> there.files, backups |-> there.backups, store |-> there.store]
             /\ dl' = [result |-> there.result, metrics |-> there.metrics]
             /\ force' = frc
             /\ faults' = {env.fault} \ {"none"}
    /\ calls' = calls + 1
    /\ UNCHANGED <<registered, pc, latest_file, download_url, downloaded, total,
                   pending, dl_ok, trace, prev>>

NextTwin == UpdateBoth

SpecTwin == InitTwin /\ [][NextTwin]_vars

(***************************************************************************)
(* The comparator on its own: is_newer_version applied to a file name and  *)
(* a stored latest_version drawn from the sets below.                      *)
(***************************************************************************)
VersionString(y, m) == Digits4(y) \o DASH \o Digits2(m)

CmpYears == {0, 2023, 2024}
CmpMonths == {0, 1, 12, 13}

\* remote file names: with a valid or an invalid date, without a token, and
\* with a suffix after the token
CmpFiles ==
    {Archive(y, m) : y \in CmpYears, m \in CmpMonths}
        \cup {NoToken, TempPath(Archive(2024, 1))}

\* stored latest_version values: absent, well-formed with a valid or an
\* invalid date, "zim", "2024-1" and "2024-01zim"
CmpVersions ==
    {VersionString(y, m) : y \in CmpYears, m \in CmpMonths}
        \cup {None, SubSeq(ZIM, 2, 4), Digits4(2024) \o DASH \o <<Chr(1)>>,
              VersionString(2024, 1) \o SubSeq(ZIM, 2, 4)}

InitCmp ==
    /\ files = EmptyDir
    /\ backups = {}
    /\ \E v \in CmpVersions :
          store = [kind |-> "array", downloads |-> <<>>, latest_version |-> v]
    /\ registered = TRUE
    /\ metrics = ZeroMetrics
    /\ calls = 0
    /\ pc = "cmp"
    /\ force = FALSE
    /\ latest_file \in CmpFiles
    /\ download_url = None
    /\ downloaded = 0
    /\ total = 0
    /\ pending = NoStore
    /\ dl_ok = FALSE
    /\ result = FALSE
    /\ trace = <<>>
    /\ faults = {}
    /\ dl = NoDl
    /\ pre = [files |-> files, backups |-> backups, store |-> store]
    /\ prev = NoPrev

\* download_manager.is_newer_version(latest_file)
Compare ==
    /\ pc = "cmp"
    /\ result' = IsNewerVersion(latest_file, GetLatestVersion(store))
    /\ pc' = "cmp_done"
    /\ UNCHANGED <<files, backups, store, registered, metrics, calls, force,
                   latest_file, download_url, downloaded, total, pending, dl_ok,
                   trace, faults, dl, pre, prev>>

NextCmp == Compare

SpecCmp == InitCmp /\ [][NextCmp]_vars

(***************************************************************************)
(* The metadata store on its own: downloads_metadata.json as the sources   *)
(* that share it see it. Here store is the file: its kind (missing,        *)
(* malformed, a JSON object, a JSON array) and the value json.load gives.  *)
(***************************************************************************)
\* number of update_download_metadata calls in one behaviour
MaxRecords == 2

\* the source names "a" and "b"
SourceA == <<97>>
SourceB == <<98>>
Sources == {SourceA, SourceB}

MissingFile == [kind |-> "missing", value |-> <<>>]
MalformedFile == [kind |-> "malformed", value |-> <<>>]
ObjectFile(obj) == [kind |-> "object", value |-> obj]
ArrayFile(all) == [kind |-> "array", value |-> all]

\* load_metadata() that takes anything but an array for unreadable
LoadMetadataStrict(file) ==
    IF file.kind = "array" THEN file.value ELSE <<>>

\* load_metadata(): [] for a missing file and for one json.load cannot
\* read, [metadata] for a value that is not a list
LoadMetadata(file) ==
    IF file.kind = "missing" THEN <<>>
    ELSE IF file.kind = "malformed" THEN <<>>
    ELSE IF file.kind # "array" THEN <<file.value>>
    ELSE file.value

\* a lookup that finds nothing
FindEntryNone(all, name) == 0

\* for meta in all_metadata: if meta.get("source_name") == self.source_name:
\* the position of the first such entry, 0 for none
FindEntry(all, name) ==
    LET hits == {i \in 1..Len(all) : all[i].source_name = name}
    IN IF hits = {} THEN 0 ELSE CHOOSE i \in hits : \A j \in hits : i <= j

\* get_latest_version() that returns the version of the first record
GetLatestVersionOfFirst(file, name) ==
    LET all == LoadMetadata(file)
        i == FindEntry(all, name)
    IN IF i = 0 THEN None
       ELSE IF all[i].downloads = <<>> THEN None
       ELSE all[i].downloads[1].version

\* get_latest_version() of the manager of source name
GetLatestVersionOf(file, name) ==
    LET all == LoadMetadata(file)
        i == FindEntry(all, name)
    IN IF i = 0 THEN None ELSE all[i].latest_version

\* the entry update_download_metadata creates for a source without one
NewEntry(name) == [source_name |-> name, downloads |-> <<>>, latest_version |-> None]

\* update_download_metadata that saves the entry of its own source alone
UpdateDownloadMetadataAlone(file, name, filename, file_size, saved) ==
    LET version == VersionOf(filename)
        all == LoadMetadata(file)
        i == FindEntry(all, name)
        source_meta == IF i = 0 THEN NewEntry(name) ELSE all[i]
        download_record == [filename |-> filename, version |-> version, size_bytes |-> file_size]
        updated == [source_meta EXCEPT !.downloads = Append(@, download_record),
                                       !.latest_version = version]
    IN IF version = None THEN [ret |-> FALSE, file |-> file]
       ELSE IF ~saved THEN [ret |-> FALSE, file |-> file]
       ELSE [ret |-> TRUE, file |-> ArrayFile(<<updated>>)]

\* update_download_metadata that appends the record and leaves
\* latest_version as it was
UpdateDownloadMetadataStale(file, name, filename, file_size, saved) ==
    LET version == VersionOf(filename)
        all == LoadMetadata(file)
        i == FindEntry(all, name)
        with_entry == IF i = 0 THEN Append(all, NewEntry(name)) ELSE all
        j == IF i = 0 THEN Len(with_entry) ELSE i
        download_record == [filename |-> filename, version |-> version, size_bytes |-> file_size]
        updated == [with_entry EXCEPT ![j].downloads = Append(@, download_record)]
    IN IF version = None THEN [ret |-> FALSE, file |-> file]
       ELSE IF ~saved THEN [ret |-> FALSE, file |-> file]
       ELSE [ret |-> TRUE, file |-> ArrayFile(updated)]

\* update_download_metadata(filename, file_size) of the manager of source
\* name: what it returns and the file it leaves. saved says whether
\* save_metadata could open the file for writing
UpdateDownloadMetadata(file, name, filename, file_size, saved) ==
    LET version == VersionOf(filename)
        all == LoadMetadata(file)
        i == FindEntry(all, name)
        with_entry == IF i = 0 THEN Append(all, NewEntry(name)) ELSE all
        j == IF i = 0 THEN Len(with_entry) ELSE i
        download_record == [filename |-> filename, version |-> version, size_bytes |-> file_size]
        updated == [with_entry EXCEPT ![j].downloads = Append(@, download_record),
                                      ![j].latest_version = version]
    IN IF version = None THEN [ret |-> FALSE, file |-> file]
       ELSE IF ~saved THEN [ret |-> FALSE, file |-> file]
       ELSE [ret |-> TRUE, file |-> ArrayFile(updated)]

\* a single object as the single-object schema kept it, without source_name
LegacyObject == [source_name |-> None, downloads |-> <<>>, latest_version |-> VersionString(2023, 12)]
\* a single object that is the entry of source "a"
EntryObject ==
    [source_name |-> SourceA,
     downloads |-> <<[filename |-> Archive(2023, 12), version |-> VersionString(2023, 12), size_bytes |-> MaxSize]>>,
     latest_version |-> VersionString(2023, 12)]

\* the files the managers can find when they start
MetaFiles ==
    {MissingFile, ArrayFile(<<>>), MalformedFile, ObjectFile(LegacyObject), ObjectFile(EntryObject)}

NoCall == [source |-> None, filename |-> None, file_size |-> 0, saved |-> FALSE]
NoAnswer == [source |-> None, version |-> None]

InitMeta ==
    /\ files = EmptyDir
    /\ backups = {}
    /\ store \in MetaFiles
    /\ registered = TRUE
    /\ metrics = ZeroMetrics
    /\ calls = 0
    /\ pc = "meta"
    /\ force = FALSE
    /\ latest_file = None
    /\ download_url = None
    /\ downloaded = 0
    /\ total = 0
    /\ pending = NoAnswer
    /\ dl_ok = FALSE
    /\ result = FALSE
    /\ trace = <<>>
    /\ faults = IF store.kind \in {"malformed", "object"} THEN {store.kind} ELSE {}
    /\ dl = NoCall
    /\ pre = [files |-> files, backups |-> backups, store |-> store]
    /\ prev = NoPrev

\* the manager of source name records a download; dl is the call, pre the
\* file before it, result what it returned
RecordDownload(name) ==
    /\ pc = "meta"
    /\ calls < MaxRecords
    /\ \E filename \in Catalog, file_size \in {0, MaxSize}, saved \in BOOLEAN :
          LET out == UpdateDownloadMetadata(store, name, filename, file_size, saved)
          IN /\ store' = out.file
             /\ result' = out.ret
             /\ dl' = [source |-> name, filename |-> filename, file_size |-> file_size,
                       saved |-> saved]
             /\ faults' = IF saved THEN faults ELSE faults \cup {"save"}
    /\ calls' = calls + 1
    /\ pre' = [files |-> files, backups |-> backups, store |-> store]
    /\ pending' = NoAnswer
    /\ UNCHANGED <<files, backups, registered, metrics, pc, force, latest_file,
                   download_url, downloaded, total, dl_ok, trace, prev>>

\* the manager of source name is asked for its latest version; pending is
\* the answer
AskLatestVersion(name) ==
    /\ pc = "meta"
    /\ pending' = [source |-> name, version |-> GetLatestVersionOf(store, name)]
    /\ UNCHANGED <<files, backups, store, registered, metrics, calls, pc, force,
                   latest_file, download_url, downloaded, total, dl_ok, result,
                   trace, faults, dl, pre, prev>>

NextMeta ==
    \/ \E name \in Sources : RecordDownload(name)
    \/ \E name \in Sources : AskLatestVersion(name)

SpecMeta == InitMeta /\ [][NextMeta]_vars

(***************************************************************************)
(* Two processes recording a download in the same downloads_metadata.json  *)
(* at the same time.  update_download_metadata reads the whole file, adds  *)
(* its record to what it read and writes the whole file; nothing is        *)
(* locked in between.                                                      *)
(***************************************************************************)
Procs == {1, 2}

\* the file each process has downloaded
RaceFile(p) == IF p = 1 THEN Archive(2024, 1) ELSE Archive(2024, 2)

\* a save that takes the file as it is at the moment of writing, as it would
\* under a lock held from the read on
SavedUnderLock(loaded, current, name, filename, file_size) ==
    UpdateDownloadMetadata(current, name, filename, file_size, TRUE).file
\* what save_metadata(all_metadata) writes: the list load_metadata returned
\* earlier in the call, with the record added; what the file holds by now
\* plays no part
Saved(loaded, current, name, filename, file_size) ==
    UpdateDownloadMetadata(loaded, name, filename, file_size, TRUE).file

InitRace ==
    /\ files = EmptyDir
    /\ backups = {}
    /\ store \in MetaFiles
    /\ registered = TRUE
    /\ metrics = ZeroMetrics
    /\ calls = 0
    /\ pc = [p \in Procs |-> "load"]
    /\ force = FALSE
    /\ latest_file = None
    /\ download_url = None
    /\ downloaded = 0
    /\ total = 0
    /\ pending = [p \in Procs |-> MissingFile]
    /\ dl_ok = FALSE
    /\ result = FALSE
    /\ trace = <<>>
    /\ faults = {}
    /\ \E name \in [Procs -> Sources] :
          dl = [p \in Procs |-> [source |-> name[p], filename |-> RaceFile(p),
                                 file_size |-> MaxSize]]
    /\ pre = [files |-> files, backups |-> backups, store |-> store]
    /\ prev = NoPrev

\* all_metadata = self.load_metadata() in process p
RaceLoad(p) ==
    /\ pc[p] = "load"
    /\ pending' = [pending EXCEPT ![p] = store]
    /\ pc' = [pc EXCEPT ![p] = "save"]
    /\ trace' = Append(trace, <<p, "load">>)
    /\ UNCHANGED <<files, backups, store, registered, metrics, calls, force,
                   latest_file, download_url, downloaded, total, dl_ok, result,
                   faults, dl, pre, prev>>

\* the record is added and save_metadata(all_metadata) writes the file, in
\* process p
RaceSave(p) ==
    /\ pc[p] = "save"
    /\ store' = Saved(pending[p], store, dl[p].source, dl[p].filename, dl[p].file_size)
    /\ pc' = [pc EXCEPT ![p] = "done"]
    /\ trace' = Append(trace, <<p, "save">>)
    /\ UNCHANGED <<files, backups, registered, metrics, calls, force,
                   latest_file, download_url, downloaded, total, pending, dl_ok,
                   result, faults, dl, pre, prev>>

NextRace == \E p \in Procs : RaceLoad(p) \/ RaceSave(p)

SpecRace == InitRace /\ [][NextRace]_vars

(***************************************************************************)
(* The all-sources command: ApplicationManager.run, execute_command        *)
(* without --source, and CommandExecutor.download_sources.  Here pending   *)
(* is the zim_sources list of the configuration, dl the installation       *)
(* (data/<name>, backup/<name>, metadata file) of each source name, calls  *)
(* the number of entries the for loop has taken, result all_success,       *)
(* trace the calls of update_if_needed made so far and total the exit      *)
(* code.                                                                   *)
(***************************************************************************)
\* number of entries of zim_sources
MaxSources == 2

\* a source_config: its "name", None when the key is missing or empty
SourceConfigs == [name : Sources \cup {None}]
Configs == UNION {[1..n -> SourceConfigs] : n \in 0..MaxSources}

\* what the environment does during one update_if_needed of the command
CommandEnvironments ==
    {env \in Environments :
        /\ env.page \in {{}, {Archive(2024, 1)}}
        /\ env.fault \in {"none", "request"}}

InitCommand ==
    /\ files = EmptyDir
    /\ backups = {}
    /\ store = NoStore
    /\ registered = TRUE
    /\ metrics = ZeroMetrics
    /\ calls = 0
    /\ pc = "command"
    /\ force \in BOOLEAN
    /\ latest_file = None
    /\ download_url = None
    /\ downloaded = 0
    /\ total = 0
    /\ pending \in Configs
    /\ dl_ok = FALSE
    /\ result = FALSE
    /\ trace = <<>>
    /\ faults = {}
    /\ dl = [name \in Sources |-> [files |-> EmptyDir, backups |-> {}, store |-> NoStore]]
    /\ pre = [files |-> files, backups |-> backups, store |-> store]
    /\ prev = NoPrev

\* download_sources up to the for loop: no sources configured returns False
DownloadSources ==
    /\ pc = "command"
    /\ IF pending = <<>>
       THEN /\ result' = FALSE
            /\ pc' = "returned"
       ELSE /\ result' = TRUE
            /\ pc' = "loop"
    /\ UNCHANGED <<files, backups, store, registered, metrics, calls, force,
                   latest_file, download_url, downloaded, total, pending, dl_ok,
                   trace, faults, dl, pre, prev>>

\* one turn of "for source_config in zim_sources"
ProcessSource ==
    /\ pc = "loop"
    /\ calls < Len(pending)
    /\ LET source_name == pending[calls + 1].name
       IN \/ \* "if not source_name: all_success = False; continue"
             /\ source_name = None
             /\ result' = FALSE
             /\ calls' = calls + 1
             /\ UNCHANGED <<pc, metrics, trace, faults, dl>>
          \/ \* create_connector_from_config raises (os.makedirs on a path
             \* that cannot be created): nothing in download_sources or
             \* execute_command catches it
             /\ source_name # None
             /\ pc' = "raised"
             /\ faults' = faults \cup {"makedirs"}
             /\ UNCHANGED <<result, calls, metrics, trace, dl>>
          \/ \* success = zim_connector.update_if_needed(force=force_update)
             /\ source_name # None
             /\ \E env \in CommandEnvironments :
                   \E out \in {UpdateIfNeeded(dl[source_name], force, env, registered,
                                              metrics, calls + 1)} :
                      /\ dl' = [dl EXCEPT ![source_name] =
                                   [files |-> out.files, backups |-> out.backups,
                                    store |-> out.store]]
                      /\ metrics' = out.metrics
                      /\ trace' = Append(trace, [entry |-> calls + 1, success |-> out.result])
                      /\ result' = (result /\ out.result)
                      /\ faults' = faults \cup ({env.fault} \ {"none"})
             /\ calls' = calls + 1
             /\ UNCHANGED pc
    /\ UNCHANGED <<files, backups, store, registered, force, latest_file,
                   download_url, downloaded, total, pending, dl_ok, pre, prev>>

\* "return all_success" after the last entry
ReturnAllSuccess ==
    /\ pc = "loop"
    /\ calls = Len(pending)
    /\ pc' = "returned"
    /\ UNCHANGED <<files, backups, store, registered, metrics, calls, force,
                   latest_file, download_url, downloaded, total, pending, dl_ok,
                   result, trace, faults, dl, pre, prev>>

\* execute_command: "return 0 if success else 1"
ExecuteCommand ==
    /\ pc = "returned"
    /\ total' = IF result THEN 0 ELSE 1
    /\ pc' = "exit"
    /\ UNCHANGED <<files, backups, store, registered, metrics, calls, force,
                   latest_file, download_url, downloaded, pending, dl_ok,
                   result, trace, faults, dl, pre, prev>>

\* run: "except Exception: ... return 1"
RunExcept ==
    /\ pc = "raised"
    /\ total' = 1
    /\ pc' = "exit"
    /\ UNCHANGED <<files, backups, store, registered, metrics, calls, force,
                   latest_file, download_url, downloaded, pending, dl_ok,
                   result, trace, faults, dl, pre, prev>>

NextCommand ==
    \/ DownloadSources
    \/ ProcessSource
    \/ ReturnAllSuccess
    \/ ExecuteCommand
    \/ RunExcept

SpecCommand == InitCommand /\ [][NextCommand]_vars

(***************************************************************************)
(* Properties.                                                             *)
(***************************************************************************)
Order == <<"check", "backup", "download", "verify">>
Steps(tr) == {tr[i].step : i \in 1..Len(tr)}
HasArchive(dir) == \E n \in Catalog : Exists(dir, n)
Complete(c) == c.len = c.of

\* C1: the steps of a run of update_if_needed are a prefix of check, backup,
\* download, verify, each at most once; a step has started only if every
\* step before it reported success (the check: that an update is needed),
\* and once a step has failed the run is ending.
C1_StepOrder ==
    /\ Len(trace) <= Len(Order)
    /\ \A i \in 1..Len(trace) : trace[i].step = Order[i]
    /\ \A i \in 1..(Len(trace) - 1) : trace[i].res = "ok"
    /\ (trace # <<>> /\ trace[Len(trace)].res \in {"fail", "no"}) => pc \in {"dl_ret", "done"}
    /\ pc = "done" => (trace # <<>> /\ trace[Len(trace)].res # "run")

\* a run that went through all four steps has returned
C1_Witness == pc = "done" /\ Len(trace) = 4 /\ result

\* C2: in every state, a crashed run's included, no file under a final name
\* is partly written, and the file at the final path of the download in
\* progress (or last attempted) is what it was before the download or the
\* whole new body.
C2_FinalPathAtomic ==
    /\ \A n \in Catalog : Exists(files, n) => Complete(files[n])
    /\ dl.final # None =>
          \/ At(files, dl.final) = dl.pre
          \/ At(files, dl.final) = [gen |-> dl.gen, len |-> dl.total, of |-> dl.total]

\* a run that was replacing an existing file has crashed between two chunks
C2_Witness ==
    /\ pc = "idle"
    /\ dl.final # None
    /\ dl.pre # NoFile
    /\ At(files, dl.final) = dl.pre
    /\ Exists(files, TempPath(dl.final))
    /\ files[TempPath(dl.final)].len > 0
    /\ ~Complete(files[TempPath(dl.final)])

\* C3: when download_file has failed at the request, at a chunk or at the
\* rename, then on its return it has returned False, there is no temp file,
\* the failure counter of the source (when it is registered) has been
\* incremented, and the file at the final path is what it was when the run
\* started.
C3_FailedDownload ==
    (pc = "dl_ret" /\ faults \cap {"request", "write", "rename"} # {}) =>
        /\ ~dl_ok
        /\ ~Exists(files, TempPath(Target))
        /\ registered => metrics.download_failures = 1
        /\ At(files, Target) = At(pre.files, Target)
        /\ At(files, Target) = dl.pre

\* download_file, with the counters registered, has failed between two chunks
C3_Witness ==
    /\ pc = "dl_ret"
    /\ registered
    /\ "write" \in faults
    /\ downloaded > 0
    /\ downloaded < total

\* C4: a run that found no latest remote file (the listing could not be
\* fetched or holds no matching name) returns False, without backup and
\* without download.
C4_NoRemoteFails ==
    (pc = "done" /\ latest_file = None) =>
        /\ result = FALSE
        /\ Steps(trace) = {"check"}

\* C5: with a latest remote file found, the check says "update needed"
\* exactly when force is set, or no archive file is in the data directory,
\* or is_newer_version says so for the latest remote file name.
C5_UpdateDecision ==
    (pc \notin {"idle", "check", "cmp", "cmp_done"} /\ latest_file # None) =>
        (trace[1].res = "ok") =
            (IF force THEN TRUE
             ELSE IF ~HasArchive(pre.files) THEN TRUE
             ELSE IsNewerVersion(latest_file, GetLatestVersion(pre.store)))

\* an unforced run with an archive in place was told by the comparator that
\* nothing is newer
C5_Witness ==
    /\ pc = "done"
    /\ latest_file # None
    /\ ~force
    /\ HasArchive(pre.files)
    /\ trace = <<Step("check", "no")>>

\* the file names of CmpFiles in which the comparator finds a date, and the
\* stored versions of CmpVersions it takes for well-formed
DatedFile(y, m) == Archive(y, m)
CmpDated == {<<y, m>> \in CmpYears \X CmpMonths : ValidDate(y, m)}
CmpUndatedFiles == CmpFiles \ ({DatedFile(d[1], d[2]) : d \in CmpDated} \cup {TempPath(Archive(2024, 1))})
CmpMalformed == (CmpVersions \ {None}) \ ({VersionString(d[1], d[2]) : d \in CmpDated} \cup {VersionString(2024, 1) \o SubSeq(ZIM, 2, 4)})

\* C6: for a remote file name with the date (y, m) and a stored version with
\* the date (sy, sm), is_newer_version is true exactly when (y, m) is greater
\* than (sy, sm) as a pair; equal and older give false.
C6_TupleOrder ==
    pc = "cmp_done" =>
        \A r \in CmpDated : \A l \in CmpDated :
            (latest_file = DatedFile(r[1], r[2]) /\ store.latest_version = VersionString(l[1], l[2])) =>
                result = (r[1] > l[1] \/ (r[1] = l[1] /\ r[2] > l[2]))

\* a remote file of an earlier month and a later year than the stored
\* version is newer
C6_Witness ==
    /\ pc = "cmp_done"
    /\ latest_file = DatedFile(2024, 1)
    /\ store.latest_version = VersionString(2023, 12)
    /\ result

\* C7: is_newer_version is true without a stored version, whatever the file
\* name; else false for a file name without a date, whatever the stored
\* version; else true for a malformed stored version.
C7_Precedence ==
    pc = "cmp_done" =>
        /\ store.latest_version = None => result
        /\ (store.latest_version # None /\ latest_file \in CmpUndatedFiles) => ~result
        /\ (store.latest_version # None /\ latest_file \notin CmpUndatedFiles
                /\ store.latest_version \in CmpMalformed) => result

\* a file name without a date met a malformed stored version
C7_Witness ==
    /\ pc = "cmp_done"
    /\ latest_file \in CmpUndatedFiles
    /\ store.latest_version \in CmpMalformed
    /\ ~result

\* C8 as stated: of two unforced runs in a row for which the resolver
\* returned the same latest file, the second ends at "no update needed" and
\* backup and download each happen at most once in the two.
C8_SecondRunIdle ==
    (pc = "done" /\ prev.valid /\ ~force /\ prev.latest_file = latest_file) =>
        /\ trace = <<Step("check", "no")>>
        /\ ~("backup" \in prev.steps /\ "backup" \in Steps(trace))
        /\ ~("download" \in prev.steps /\ "download" \in Steps(trace))

\* C8 amended: the same, for a first run that ended at "no update needed" or
\* whose download was recorded in the metadata store.
C8_SecondRunIdleAfterSettled ==
    (pc = "done" /\ prev.valid /\ prev.settled /\ ~force /\ prev.latest_file = latest_file) =>
        /\ trace = <<Step("check", "no")>>
        /\ result
        /\ files = pre.files /\ backups = pre.backups /\ store = pre.store

\* the first run downloaded and recorded the latest file, the second found
\* nothing to do
C8_Witness ==
    /\ pc = "done"
    /\ prev.valid
    /\ prev.settled
    /\ "download" \in prev.steps
    /\ ~force
    /\ latest_file # None
    /\ prev.latest_file = latest_file
    /\ trace = <<Step("check", "no")>>

\* the date of a well-formed version string
DateOfVersion(v) == <<StrToInt(SubSeq(v, 1, 4)), StrToInt(SubSeq(v, 6, 7))>>

\* the files of the data directory, the metadata file among them
FileCount(dir, st) ==
    Cardinality(DOMAIN dir) + (IF st.kind = "missing" THEN 0 ELSE 1)

\* what C9 concludes: no download, True returned, as many files as before
C9_NothingDone ==
    /\ "download" \notin Steps(trace)
    /\ result
    /\ FileCount(files, store) = FileCount(pre.files, pre.store)

\* C9 as stated: an unforced run that finds a latest remote file older than
\* an archive file of the data directory does nothing.
C9_OlderThanLocalFile ==
    (/\ pc = "done"
     /\ ~force
     /\ latest_file # None
     /\ ExtractVersionDate(latest_file) # None
     /\ \E n \in Catalog :
           /\ Exists(pre.files, n)
           /\ ExtractVersionDate(n) # None
           /\ DateGreater(ExtractVersionDate(n), ExtractVersionDate(latest_file)))
        => C9_NothingDone

\* C9 amended: an unforced run, with an archive file in the data directory,
\* that finds a latest remote file older than the stored latest_version
\* does nothing.
C9_OlderThanStored ==
    (/\ pc = "done"
     /\ ~force
     /\ latest_file # None
     /\ HasArchive(pre.files)
     /\ \E r \in {<<2023, 12>>, <<2024, 1>>} :
           /\ latest_file = Archive(r[1], r[2])
           /\ MatchStoredVersion(GetLatestVersion(pre.store))
           /\ DateGreater(DateOfVersion(GetLatestVersion(pre.store)), r))
        => C9_NothingDone

\* the store says 2024-01, the remote index offers 2023-12
C9_Witness ==
    /\ pc = "done"
    /\ ~force
    /\ latest_file = Archive(2023, 12)
    /\ Exists(pre.files, Archive(2024, 1))
    /\ GetLatestVersion(pre.store) = VersionString(2024, 1)
    /\ C9_NothingDone

\* C10: a run that starts without metadata and without archive file, finds
\* a latest remote file with a version token, and meets no failure (the
\* body is not empty either) returns True; the file is in the data
\* directory under its name, whole, and the store holds one record, with
\* that file's token as version.
C10_FirstDownload ==
    (/\ pc = "done"
     /\ pre.store = NoStore
     /\ ~HasArchive(pre.files)
     /\ faults = {}
     /\ dl.total > 0
     /\ \E d \in {<<2023, 12>>, <<2024, 1>>} : latest_file = Archive(d[1], d[2]))
        => /\ result
           /\ Exists(files, latest_file)
           /\ Complete(files[latest_file])
           /\ store.kind = "array"
           /\ Len(store.downloads) = 1
           /\ \A d \in {<<2023, 12>>, <<2024, 1>>} :
                 latest_file = Archive(d[1], d[2]) =>
                     /\ store.downloads[1].version = VersionString(d[1], d[2])
                     /\ store.downloads[1].filename = latest_file
                     /\ store.latest_version = VersionString(d[1], d[2])

\* the first download of a fresh installation has gone through
C10_Witness ==
    /\ pc = "done"
    /\ calls = 1
    /\ faults = {}
    /\ latest_file = Archive(2024, 1)
    /\ result
    /\ Len(store.downloads) = 1

\* the counters of a process that has done nothing but one check
OnlyChecked == IF registered THEN [ZeroMetrics EXCEPT !.check_count = 1] ELSE ZeroMetrics

\* C11: a run in which a latest remote file was found and the check said
\* that no update is needed returns True; the data directory, the backup
\* directory and the metadata store are what they were when it started, and
\* of the counters only check_count has moved, by one (when it is registered).
C11_NoUpdateFrame ==
    (pc = "done" /\ latest_file # None /\ trace = <<Step("check", "no")>>) =>
        /\ result
        /\ files = pre.files
        /\ backups = pre.backups
        /\ store = pre.store
        /\ metrics = OnlyChecked

\* with counters registered, an archive and its record in place, a run has
\* found nothing newer
C11_Witness ==
    /\ pc = "done"
    /\ registered
    /\ latest_file # None
    /\ trace = <<Step("check", "no")>>
    /\ HasArchive(files)
    /\ store.kind = "array"
    /\ metrics.check_count = 1

\* C12: once backup_current_version has returned False (the copy raised, or
\* the copy has another size than the original), the run is over without a
\* download step: it has returned False, and the data directory and the
\* metadata store are what they were when the run started.
C12_BackupFailedFrame ==
    (Len(trace) >= 2 /\ trace[2] = Step("backup", "fail")) =>
        /\ pc = "done"
        /\ ~result
        /\ Len(trace) = 2
        /\ files = pre.files
        /\ store = pre.store

\* a run with an archive to protect has ended on a backup of the wrong size
C12_Witness ==
    /\ pc = "done"
    /\ trace = <<Step("check", "ok"), Step("backup", "fail")>>
    /\ "size" \in faults
    /\ HasArchive(files)
    /\ backups # pre.backups

\* C13: once the download step has failed, every backup file that was in the
\* backup directory when download_file was called is still there as it was,
\* and the run returns False.
C13_FailedDownloadKeepsBackups ==
    (Len(trace) >= 3 /\ trace[3] = Step("download", "fail")) =>
        /\ dl.backups \subseteq backups
        /\ Len(trace) = 3
        /\ pc = "done" => ~result

\* a run has made a backup of the archive in place and then failed to
\* download its replacement
C13_Witness ==
    /\ pc = "done"
    /\ trace = <<Step("check", "ok"), Step("backup", "ok"), Step("download", "fail")>>
    /\ dl.backups # {}
    /\ dl.pre # NoFile
    /\ ~result

\* C14: when verify_download has failed on a downloaded file, the run returns
\* False and the file at the final path is the body just downloaded: it was
\* neither removed nor replaced.
C14_FailedVerifyKeepsFile ==
    (Len(trace) = 4 /\ trace[4] = Step("verify", "fail")) =>
        /\ pc = "done"
        /\ ~result
        /\ Exists(files, dl.final)
        /\ files[dl.final] = [gen |-> dl.gen, len |-> dl.total, of |-> dl.total]
        /\ backups = dl.backups

\* an empty body has replaced an archive that had been backed up, and failed
\* verification
C14_Witness ==
    /\ pc = "done"
    /\ Len(trace) = 4
    /\ trace[4] = Step("verify", "fail")
    /\ dl.pre # NoFile
    /\ dl.pre.len > 0
    /\ dl.backups # {}
    /\ files[dl.final].len = 0

\* C15: when download_file returns after transferring and renaming a file
\* whose name holds no version token, it returns False and the store has no
\* new record.
C15_NoTokenFailsDownload ==
    (/\ pc = "dl_ret"
     /\ faults \cap {"request", "write", "rename"} = {}
     /\ VersionOf(Target) = None)
        => /\ ~dl_ok
           /\ store = pre.store

\* the behaviour started from an empty store: no file, or an empty array
StartedEmpty == faults \cap {"malformed", "object"} = {}

\* the entries of source name in what load_metadata returns
EntriesOf(file, name) ==
    SelectSeq(LoadMetadata(file), LAMBDA meta : meta.source_name = name)

\* C16: in a store that started empty, after any calls of
\* update_download_metadata by the sources, every entry with downloads has
\* the version of its last record as latest_version, and get_latest_version
\* returns it; for a source without entry get_latest_version returns None;
\* no entry is without downloads.
C16_LatestIsLastRecord ==
    (pc = "meta" /\ StartedEmpty) =>
        \A name \in Sources :
            LET mine == EntriesOf(store, name)
            IN /\ \A i \in 1..Len(mine) :
                    /\ mine[i].downloads # <<>>
                    /\ mine[i].latest_version = mine[i].downloads[Len(mine[i].downloads)].version
               /\ mine = <<>> => GetLatestVersionOf(store, name) = None
               /\ mine # <<>> =>
                    GetLatestVersionOf(store, name) = mine[1].downloads[Len(mine[1].downloads)].version

\* a source has recorded 2024-01 and then 2023-12 in a store that started
\* empty
C16_Witness ==
    /\ pc = "meta"
    /\ StartedEmpty
    /\ EntriesOf(store, SourceA) # <<>>
    /\ Len(EntriesOf(store, SourceA)[1].downloads) = 2
    /\ EntriesOf(store, SourceA)[1].downloads[1].version = VersionString(2024, 1)
    /\ GetLatestVersionOf(store, SourceA) = VersionString(2023, 12)
    /\ GetLatestVersionOf(store, SourceB) = None

\* update_download_metadata has been called and has returned True
Recording == dl # NoCall /\ result

\* C17: in a store that started empty no two entries have the same
\* source_name; a call that returned True has added one entry when its
\* source had none and no entry when it had one, and that entry holds the
\* records it held before and the new one after them.
C17_OneEntryPerSource ==
    pc = "meta" =>
        /\ StartedEmpty => \A name \in Sources : Len(EntriesOf(store, name)) <= 1
        /\ Recording =>
              LET before == EntriesOf(pre.store, dl.source)
                  after == EntriesOf(store, dl.source)
              IN /\ Len(LoadMetadata(store)) =
                        Len(LoadMetadata(pre.store)) + (IF before = <<>> THEN 1 ELSE 0)
                 /\ Len(after) = IF before = <<>> THEN 1 ELSE Len(before)
                 /\ SubSeq(after[1].downloads, 1, Len(after[1].downloads) - 1) =
                        (IF before = <<>> THEN <<>> ELSE before[1].downloads)

\* a source with an entry has recorded a second download
C17_Witness ==
    /\ pc = "meta"
    /\ StartedEmpty
    /\ Recording
    /\ EntriesOf(pre.store, dl.source) # <<>>
    /\ Len(EntriesOf(store, dl.source)) = 1
    /\ Len(EntriesOf(store, dl.source)[1].downloads) = 2

\* the file names of the catalog with a version token, by their dates
Tokened == {<<2023, 12>>, <<2024, 1>>}

\* C18: when update_download_metadata has recorded a file name with the
\* token YYYY-MM and get_latest_version is then asked for the same source,
\* the answer is YYYY-MM, whatever the file held before and whatever the
\* size recorded.
C18_RecordThenLatest ==
    (pc = "meta" /\ Recording /\ pending # NoAnswer /\ pending.source = dl.source) =>
        \A d \in Tokened :
            dl.filename = Archive(d[1], d[2]) => pending.version = VersionString(d[1], d[2])

\* a source whose entry said 2023-12 has recorded 2024-01 and been asked
C18_Witness ==
    /\ pc = "meta"
    /\ Recording
    /\ GetLatestVersionOf(pre.store, dl.source) = VersionString(2023, 12)
    /\ dl.filename = Archive(2024, 1)
    /\ pending = [source |-> dl.source, version |-> VersionString(2024, 1)]

\* C19: get_latest_version answers None on a missing file, on a file
\* json.load cannot read and for a source without entry, and reads a file
\* holding a single object as the array of that one object; and
\* update_download_metadata, given a name with a token and a file it can
\* write, returns True on each of these files, leaving an array that still
\* starts with the single object when there was one.
C19_LoadTolerates ==
    pc = "meta" =>
        /\ pending # NoAnswer =>
              /\ store.kind \in {"missing", "malformed"} => pending.version = None
              /\ store.kind = "object" =>
                    pending.version = (IF store.value.source_name = pending.source
                                       THEN store.value.latest_version ELSE None)
              /\ (store.kind = "array"
                     /\ \A i \in 1..Len(store.value) : store.value[i].source_name # pending.source)
                    => pending.version = None
        /\ (dl # NoCall /\ dl.saved /\ dl.filename # NoToken) =>
              /\ result
              /\ store.kind = "array"
              /\ pre.store.kind \in {"missing", "malformed"} => Len(store.value) = 1
              /\ pre.store.kind = "object" =>
                    /\ store.value[1].source_name = pre.store.value.source_name
                    /\ Len(store.value) = (IF pre.store.value.source_name = dl.source THEN 1 ELSE 2)
                    /\ pre.store.value.source_name # dl.source => store.value[1] = pre.store.value

\* source "b" has recorded a download in a file that held the entry of
\* source "a" as a single object, and the version of "a" is still answered
C19_Witness ==
    /\ pc = "meta"
    /\ pre.store = ObjectFile(EntryObject)
    /\ dl.source = SourceB
    /\ result
    /\ Len(store.value) = 2
    /\ pending = [source |-> SourceA, version |-> VersionString(2023, 12)]

\* the entries of the other sources in what load_metadata returns
OthersOf(file, name) ==
    SelectSeq(LoadMetadata(file), LAMBDA meta : meta.source_name # name)

C21_BackupReturn ==
    pc # "backup" =>
        LET original == GetLatestLocalFile(pre.files)
            copy == [src |-> original, ts |-> calls, content |-> pre.files[original],
                     mtime |-> pre.files[original].gen]
        IN /\ trace[2].step = "backup"
           /\ trace[2].res \in {"ok", "fail"}
           /\ original = None => trace[2].res = "ok" /\ backups = pre.backups
           /\ original # None =>
                 /\ trace[2].res = "ok" <=> faults \cap {"copy", "size"} = {}
                 /\ trace[2].res = "ok" =>
                       /\ backups \subseteq pre.backups \cup {copy}
                       /\ copy \in backups \/ Cardinality(pre.backups \cup {copy}) > max_backups
                 /\ "copy" \in faults => backups = pre.backups

\* backup_current_version returned True and its copy of the original is in
\* backup_dir
C21_Witness ==
    /\ pc = "dl_request"
    /\ GetLatestLocalFile(pre.files) # None
    /\ \E b \in backups : b.ts = calls /\ b.content = pre.files[b.src]

\* the backup the run made, and the files cleanup_old_backups found
MadeCopy ==
    LET original == GetLatestLocalFile(pre.files)
    IN [src |-> original, ts |-> calls, content |-> pre.files[original],
        mtime |-> pre.files[original].gen]
Found == pre.backups \cup {MadeCopy}
Pruned == Found \ backups
\* backup_current_version copied a file and returned True
Copied ==
    /\ pc = "dl_request"
    /\ GetLatestLocalFile(pre.files) # None

C24_GreatestMatch ==
    pc = "resolved" =>
        LET matching == {h \in pending.page : HrefMatch(h)}
        IN IF pending.fetched /\ matching # {}
           THEN /\ latest_file \in matching
                /\ \A h \in matching : h = latest_file \/ StrLess(h, latest_file)
                /\ download_url = source_url \o latest_file
           ELSE /\ latest_file = None
                /\ download_url = None

\* a listing with a link that does not match and several that do, the
\* greatest name among them carrying an older date than another
C24_Witness ==
    /\ pc = "resolved"
    /\ {OtherLink, Archive(2024, 1), LateName} \subseteq pending.page
    /\ latest_file = LateName

\* C25: verify_download(path) returns True exactly when the file exists and
\* its size is not zero; a name that does not end in .zim verifies all the
\* same.
C25_VerifyExistsNonEmpty ==
    pc = "verified" =>
        (result <=> /\ latest_file \in DOMAIN files
                    /\ files[latest_file].len > 0)

\* a file that is not named .zim, not empty, and verified
C25_Witness ==
    /\ pc = "verified"
    /\ result
    /\ latest_file = NoToken
    /\ SubSeq(latest_file, Len(latest_file) - 3, Len(latest_file)) # ZIM

\* C26: update_if_needed always returns True or False: whatever fails or
\* raises in a step, no exception leaves it.
C26_AlwaysReturns ==
    /\ pc \in {"idle", "check", "backup", "dl_request", "dl_write", "dl_meta",
               "dl_save", "dl_ret", "done"}
    /\ pc = "done" => result \in BOOLEAN

\* an exception that download_file did not catch has ended the run, which
\* returned False
C26_Witness ==
    /\ pc = "done"
    /\ "remove" \in faults
    /\ trace[Len(trace)] = Step("download", "raise")
    /\ ~result

\* C28: whenever update_if_needed returns False the entry of the source in
\* the metadata store is what it was before the call: no record appended,
\* latest_version unchanged.
C28_FalseKeepsMetadata ==
    (pc = "done" /\ ~result) => store = pre.store

\* the .downloading names
TempNames == {TempPath(n) : n \in Catalog}

\* C29: a .downloading file is never taken for the current archive:
\* get_latest_local_file never returns one and backup_current_version never
\* copies one, also after a crash in the middle of a download.
C29_TempNeverCurrent ==
    /\ pc \in {"check", "backup"} => GetLatestLocalFile(files) \notin TempNames
    /\ \A b \in backups : b.src \notin TempNames

\* C30: whenever download_file returns False the file at the final path is
\* what it was before the call.
C30_FalseKeepsFinal ==
    (pc = "dl_ret" /\ ~dl_ok) => At(files, Target) = dl.pre

\* update_if_needed as a function and update_if_needed as steps agree: every
\* finished run of Spec is the function applied to the installation the run
\* started on, in some environment (up to the length of a temp file left
\* behind, and to which of several backups of equal age was pruned)
RunsAgree ==
    pc = "done" =>
        \E env \in Environments :
            LET o == UpdateIfNeeded(pre, force, env, registered, ZeroMetrics, calls)
            IN /\ o.files = files \/ (DOMAIN o.files = DOMAIN files /\ "remove" \in faults)
               /\ o.store = store
               /\ o.result = result
               /\ o.metrics = metrics
               /\ \/ o.backups = backups
                  \/ \E b1 \in backups, b2 \in o.backups : b1.mtime = b2.mtime /\ b1 # b2

\* C27: two installations that start alike and receive the same calls, one
\* with every metric registered and one with none, return the same values and
\* hold the same files, backups and metadata after every call.
C27_MetricsNoEffect ==
    /\ files = pre.files
    /\ backups = pre.backups
    /\ store = pre.store
    /\ result = dl.result

\* after two calls the registered counters have counted a download and a
\* backup, the other installation has counted nothing
C27_Witness ==
    /\ calls = MaxCalls
    /\ metrics.download_count > 0
    /\ metrics.backup_count > 0
    /\ metrics.download_failures > 0
    /\ dl.metrics = ZeroMetrics
    /\ store # NoStore

\* C31: after every update_if_needed that downloaded a file and returned
\* True, forced or not, the latest_version of the source in the store is the
\* version token of the file get_latest_local_file returns.
C31_LatestIsLocalToken ==
    (pc = "done" /\ result /\ Len(trace) = 4) =>
        GetLatestVersion(store) = VersionOf(GetLatestLocalFile(files))

\* C32: with max_backups at least 1, whenever backup_current_version has
\* copied a file and returned True, the backup it made is in backup_dir: the
\* cleanup it runs does not remove it, also when other backups have the same
\* modification time.
C32_NewBackupKept ==
    (Copied /\ max_backups >= 1) => MadeCopy \in backups

\* C33: in one update_if_needed whose download step failed, the
\* download_failures counter of the source has gone up by exactly 1.
C33_OneFailureCounted ==
    (pc = "done" /\ registered /\ Len(trace) = 3 /\ trace[3] = Step("download", "fail")) =>
        metrics.download_failures = 1

\* C34: a crash anywhere inside update_download_metadata leaves a metadata
\* file that loads as what it held before the call or as what the call was
\* writing: no record made before the crash is lost and latest_version does
\* not go back to None.
C34_CrashKeepsStore ==
    [][(pc \in {"dl_meta", "dl_save"} /\ pc' = "idle") =>
          LoadEntry(store') \in {LoadEntry(pre.store), LoadEntry(pending)}]_vars

\* C35: a run that was not forced never appends a record whose version is
\* equal to or older than that of the record before it; from an empty
\* installation and without forced runs the versions of the records of the
\* source are therefore strictly increasing.
C35_UnforcedIncreasing ==
    [][(/\ ~force
        /\ store' # store
        /\ store'.kind = "array"
        /\ Len(store'.downloads) >= 2) =>
          LET n == Len(store'.downloads)
          IN StrLess(store'.downloads[n - 1].version, store'.downloads[n].version)]_vars

\* two runs, neither forced, have each recorded a download
C35_Witness ==
    /\ pc = "done"
    /\ result
    /\ ~force
    /\ prev.valid
    /\ store.kind = "array"
    /\ Len(store.downloads) = 2
    /\ Len(LoadEntry(pre.store).downloads) = 1

\* C36: the cleanup that follows a backup of one source removes only backups
\* made from the archives of that source: with two sources sharing
\* backup_dir, the backups of the other source all stay.
C36_PruneOwnOnly ==
    Copied => \A b \in pre.backups : b.src = OtherArchive => b \in backups

\* the record of the call c is in the file
HasRecord(file, c) ==
    \E i \in 1..Len(LoadMetadata(file)) :
        /\ LoadMetadata(file)[i].source_name = c.source
        /\ \E j \in 1..Len(LoadMetadata(file)[i].downloads) :
              LoadMetadata(file)[i].downloads[j].filename = c.filename
\* one process read and wrote before the other read
OneAfterTheOther == Len(trace) = 4 /\ trace[1][1] = trace[2][1]

\* C37: update_download_metadata is a read-modify-write of the whole file
\* without a lock.  When two processes have run it on the same file, both
\* records are there if one ran after the other; if their calls overlapped,
\* the record of the process that wrote last is there and the other is lost.
C37_LostUpdate ==
    (\A p \in Procs : pc[p] = "done") =>
        /\ OneAfterTheOther => \A p \in Procs : HasRecord(store, dl[p])
        /\ ~OneAfterTheOther =>
              /\ HasRecord(store, dl[trace[4][1]])
              /\ ~HasRecord(store, dl[trace[3][1]])

\* both processes read, then both wrote: the record of the first writer is
\* not in the file, for two processes of the same source
C37_Witness ==
    /\ \A p \in Procs : pc[p] = "done"
    /\ ~OneAfterTheOther
    /\ dl[1].source = dl[2].source
    /\ ~HasRecord(store, dl[trace[3][1]])

\* the entries of zim_sources update_if_needed was called for, in the order
\* of the calls
Called == [i \in 1..Len(trace) |-> trace[i].entry]

\* C38: when the all-sources command exits, update_if_needed has been called
\* exactly once for every configured source, in the order of the
\* configuration, also after a source has failed; the result is the AND of
\* what the calls returned, and the exit code is 0 exactly when it is true.
C38_AllSources ==
    pc = "exit" =>
        /\ Called = [i \in 1..Len(pending) |-> i]
        /\ result = (\A i \in 1..Len(trace) : trace[i].success)
        /\ (total = 0) <=> result

\* the same for the configurations that are not empty, name every source
\* and whose connectors can all be created (holds under SpecCommand)
CommandAsConfigured ==
    (/\ pc = "exit"
     /\ pending # <<>>
     /\ \A i \in 1..Len(pending) : pending[i].name # None
     /\ "makedirs" \notin faults) => C38_AllSources

====
